---- MODULE Spec2Model ----
(***************************************************************************)
(* msgvault_sdk: the immutable query builder (MessageQuery), its mutation  *)
(* operations (delete, add_label, remove_label) and the change log with    *)
(* single-step undo, over a SQLite store reached through the sqlite3       *)
(* module's implicit transactions.                                         *)
(***************************************************************************)
EXTENDS Integers, Sequences, FiniteSets, TLC

\* ------------------------------------------------------------------ bounds
NumMsgs == 3    \* rows of the messages table
MaxLog == 2     \* cap on change-log entries (mutations stop logging beyond it)

\* --------------------------------------------------------------- the store
NULL == 0       \* SQL NULL of an integer column; Python None of an int field
Msgs == 1..NumMsgs
Conns == {1, 2}

\* The participants table of the seeded archive: id -> email_address.
participants == <<"alice@example.com", "bob@example.com">>
\* participants.display_name (<<>> is SQL NULL) and participants.domain.
display_name == << <<"Alice Smith">>, <<>> >>
domain == <<"example.com", "example.com">>
\* The sources table: id -> identifier.
sources == <<"test@gmail.com", "other@gmail.com">>

\* Columns of the messages table this layer never writes.  A message may
\* have no sender (sender_id NULL) and no timestamp (sent_at NULL).
sender_id(m) == IF m % 3 = 0 THEN NULL ELSE (m % 2) + 1
\* sent_at as the number yyyymmdd, which orders like the ISO text.
sent_at(m) == CASE m = 1 -> 20230115 [] m = 2 -> NULL [] m = 3 -> 20231225
                [] OTHER -> 20240100 + m
size_estimate(m) == 1000 * m
source_id(m) == IF m = 2 THEN 2 ELSE 1
has_attachments(m) == IF m = 1 THEN 1 ELSE 0
\* message_recipients: the participant ids message m was sent to.
recipients(m) == CASE m = 1 -> {1} [] m = 2 -> {1, 2} [] OTHER -> {}
\* Collation rank of the subject column.
subject(m) == (2 * m) % 5

\* label_type given to a label add_label creates.
DefaultLabelType == "user"

\* Timestamp of the rows that were soft-deleted before this layer ran.
SeedDeletedAt == 1

\* ---------------------------------------------------------------- helpers
Range(s) == {s[i] : i \in DOMAIN s}

RECURSIVE SeqOfSet(_)
\* The elements of a finite set of integers in ascending order (rowid order).
SeqOfSet(S) == IF S = {} THEN <<>>
               ELSE LET x == CHOOSE y \in S : \A z \in S : y <= z
                    IN <<x>> \o SeqOfSet(S \ {x})

\* ------------------------------------------------------------ MessageQuery
_Filter(clause, params) == [clause |-> clause, params |-> params]

\* MessageQuery.__init__: limit/offset/sort/changelog are <<>> for None.
MessageQuery(conn, changelog, writable) ==
    [conn |-> conn, filters |-> <<>>, sort |-> <<>>, limit |-> <<>>,
     offset |-> <<>>, include_deleted |-> FALSE, changelog |-> changelog,
     writable |-> writable]

\* (mutant) the copy is always writable.
_clone_writable(self, overrides) ==
    [k \in DOMAIN self |-> IF k = "writable" THEN TRUE
                           ELSE IF k \in DOMAIN overrides THEN overrides[k] ELSE self[k]]

\* MessageQuery._clone: overrides is a record of the fields to replace.
_clone(self, overrides) ==
    [k \in DOMAIN self |-> IF k \in DOMAIN overrides THEN overrides[k] ELSE self[k]]

\* (mutant) the new predicates take the place of the receiver's.
filter_replace(self, kwargs) ==
    LET has(k) == k \in DOMAIN kwargs
        one(k, clause) == IF has(k) THEN <<_Filter(clause, <<kwargs[k]>>)>> ELSE <<>>
        val == kwargs["is_deleted"]
        new_filters ==
            one("sender", "sender =") \o one("sender_like", "sender LIKE")
            \o one("recipient", "recipient =") \o one("recipient_like", "recipient LIKE")
            \o one("domain", "domain =") \o one("label", "label =")
            \o one("account", "account =")
            \o one("before", "sent_at <") \o one("after", "sent_at >=")
            \o one("min_size", "size_estimate >=") \o one("max_size", "size_estimate <")
            \o (IF has("has_attachments")
                   THEN <<_Filter("has_attachments =",
                                  <<IF kwargs["has_attachments"] THEN 1 ELSE 0>>)>>
                ELSE <<>>)
            \o (IF has("is_deleted") /\ val = "True"
                   THEN <<_Filter("deleted_at IS NOT NULL", <<>>)>>
                ELSE IF has("is_deleted") /\ val = "False"
                   THEN <<_Filter("deleted_at IS NULL", <<>>)>>
                ELSE <<>>)
        include_deleted ==
            IF has("is_deleted") /\ val \in {"True", "None"} THEN TRUE
            ELSE self.include_deleted
    IN _clone(self, [filters |-> new_filters,
                     include_deleted |-> include_deleted])

\* (mutant) is_deleted=False is read as is_deleted=None.
filter_false_as_none(self, kwargs) ==
    LET has(k) == k \in DOMAIN kwargs
        one(k, clause) == IF has(k) THEN <<_Filter(clause, <<kwargs[k]>>)>> ELSE <<>>
        val == kwargs["is_deleted"]
        new_filters ==
            one("sender", "sender =") \o one("sender_like", "sender LIKE")
            \o one("recipient", "recipient =") \o one("recipient_like", "recipient LIKE")
            \o one("domain", "domain =") \o one("label", "label =")
            \o one("account", "account =")
            \o one("before", "sent_at <") \o one("after", "sent_at >=")
            \o one("min_size", "size_estimate >=") \o one("max_size", "size_estimate <")
            \o (IF has("has_attachments")
                   THEN <<_Filter("has_attachments =",
                                  <<IF kwargs["has_attachments"] THEN 1 ELSE 0>>)>>
                ELSE <<>>)
            \o (IF has("is_deleted") /\ val = "True"
                   THEN <<_Filter("deleted_at IS NOT NULL", <<>>)>>
                ELSE <<>>)
        include_deleted ==
            IF has("is_deleted") THEN TRUE
            ELSE self.include_deleted
    IN _clone(self, [filters |-> self.filters \o new_filters,
                     include_deleted |-> include_deleted])

\* MessageQuery.filter: one _Filter per recognised key, in the source's order.
\* Dates are passed as ISO text, which _to_iso hands on as it is; subject_like
\* is left out (subjects are kept by collation rank only).
filter(self, kwargs) ==
    LET has(k) == k \in DOMAIN kwargs
        one(k, clause) == IF has(k) THEN <<_Filter(clause, <<kwargs[k]>>)>> ELSE <<>>
        val == kwargs["is_deleted"]
        new_filters ==
            one("sender", "sender =") \o one("sender_like", "sender LIKE")
            \o one("recipient", "recipient =") \o one("recipient_like", "recipient LIKE")
            \o one("domain", "domain =") \o one("label", "label =")
            \o one("account", "account =")
            \o one("before", "sent_at <") \o one("after", "sent_at >=")
            \o one("min_size", "size_estimate >=") \o one("max_size", "size_estimate <")
            \o (IF has("has_attachments")
                   THEN <<_Filter("has_attachments =",
                                  <<IF kwargs["has_attachments"] THEN 1 ELSE 0>>)>>
                ELSE <<>>)
            \o (IF has("is_deleted") /\ val = "True"
                   THEN <<_Filter("deleted_at IS NOT NULL", <<>>)>>
                ELSE IF has("is_deleted") /\ val = "False"
                   THEN <<_Filter("deleted_at IS NULL", <<>>)>>
                ELSE <<>>)
        include_deleted ==
            IF has("is_deleted") /\ val \in {"True", "None"} THEN TRUE
            ELSE self.include_deleted
    IN _clone(self, [filters |-> self.filters \o new_filters,
                     include_deleted |-> include_deleted])

_SORT_FIELDS == {"date", "sender", "subject", "size"}

\* (mutant) any field is taken as a sort field.
sort_by_any(self, field, desc) == <<_clone(self, [sort |-> <<field, desc>>])>>

\* MessageQuery.sort_by: <<>> stands for the ValueError of an unknown field.
sort_by(self, field, desc) ==
    IF field \notin _SORT_FIELDS THEN <<>>
    ELSE <<_clone(self, [sort |-> <<field, desc>>])>>

limit(self, n) == _clone(self, [limit |-> <<n>>])
offset(self, n) == _clone(self, [offset |-> <<n>>])

\* (mutant) the implicit alive-only clause is always added.
_base_where_always(self) ==
    <<_Filter("deleted_at IS NULL", <<>>)>> \o self.filters

\* MessageQuery._base_where: the implicit alive-only clause, then the filters.
_base_where(self) ==
    (IF ~self.include_deleted THEN <<_Filter("deleted_at IS NULL", <<>>)>> ELSE <<>>)
    \o self.filters

\* SQL LIKE for the patterns used here: none holds % or _, and no two of the
\* texts differ in letter case only, so LIKE matches equal texts.
Like(text, pattern) == text = pattern

\* The store's evaluation of one WHERE clause on row m of state st.  A
\* comparison with NULL is not true.
Holds(f, m, st) ==
    CASE f.clause = "deleted_at IS NULL" -> st.deleted_at[m] = NULL
      [] f.clause = "deleted_at IS NOT NULL" -> st.deleted_at[m] # NULL
      [] f.clause = "sender =" ->
            sender_id(m) # NULL /\ participants[sender_id(m)] = f.params[1]
      [] f.clause = "sender LIKE" ->
            sender_id(m) # NULL /\ Like(participants[sender_id(m)], f.params[1])
      [] f.clause = "recipient =" ->
            \E p \in recipients(m) : participants[p] = f.params[1]
      [] f.clause = "recipient LIKE" ->
            \E p \in recipients(m) : Like(participants[p], f.params[1])
      [] f.clause = "domain =" ->
            sender_id(m) # NULL /\ domain[sender_id(m)] = f.params[1]
      [] f.clause = "account =" -> sources[source_id(m)] = f.params[1]
      [] f.clause = "has_attachments =" -> has_attachments(m) = f.params[1]
      [] f.clause = "label =" ->
            \E l \in DOMAIN st.labels :
                st.labels[l].name = f.params[1] /\ <<m, l>> \in st.message_labels
      [] f.clause = "sent_at <" -> sent_at(m) # NULL /\ sent_at(m) < f.params[1]
      [] f.clause = "sent_at >=" -> sent_at(m) # NULL /\ sent_at(m) >= f.params[1]
      [] f.clause = "size_estimate >=" -> size_estimate(m) >= f.params[1]
      [] f.clause = "size_estimate <" -> size_estimate(m) < f.params[1]

\* Rows satisfying every clause of the WHERE (clauses are joined with AND).
Matching(self, st) ==
    LET clauses == _base_where(self)
    IN {m \in Msgs : \A i \in DOMAIN clauses : Holds(clauses[i], m, st)}

RECURSIVE OrderBy(_, _, _)
\* ORDER BY key[m] ASC/DESC over the set S; equal keys come out in rowid order.
OrderBy(S, key, desc) ==
    IF S = {} THEN <<>>
    ELSE LET best == {m \in S : \A o \in S :
                         IF desc THEN key[m] >= key[o] ELSE key[m] <= key[o]}
             x == CHOOSE m \in best : \A o \in best : m <= o
         IN <<x>> \o OrderBy(S \ {x}, key, desc)

\* LIMIT n OFFSET k on a row sequence (a negative LIMIT is no limit).
Page(rows, lim, off) ==
    LET skip == IF off = <<>> THEN 0 ELSE IF off[1] < 0 THEN 0 ELSE off[1]
        rest == SubSeq(rows, skip + 1, Len(rows))
        cap == IF lim = <<>> THEN Len(rest)
               ELSE IF lim[1] < 0 THEN Len(rest)
               ELSE IF lim[1] < Len(rest) THEN lim[1] ELSE Len(rest)
    IN SubSeq(rest, 1, cap)

\* MessageQuery._build_select, executed: WHERE, ORDER BY, LIMIT, OFFSET.
_build_select(self, st) ==
    LET rows == Matching(self, st)
        col(field) == [m \in Msgs |->
                         CASE field = "date" -> sent_at(m)
                           [] field = "size" -> size_estimate(m)
                           [] field = "subject" -> subject(m)
                           [] field = "sender" -> sender_id(m)]
        sorted == IF self.sort = <<>> THEN OrderBy(rows, col("date"), TRUE)
                  ELSE OrderBy(rows, col(self.sort[1]), self.sort[2])
    IN Page(sorted, self.limit, self.offset)

\* (mutant) the id read has no ORDER BY, LIMIT or OFFSET.
message_ids_unpaged(self, st) == SeqOfSet(Matching(self, st))

\* MessageQuery.message_ids: the id column of _build_select's rows.
message_ids(self, st) == _build_select(self, st)

\* (mutant) count reads the page _build_select yields.
count_paged(self, st) == Len(_build_select(self, st))

\* MessageQuery.count: COUNT(*) under _base_where, no sort, no pagination.
count(self, st) == Cardinality(Matching(self, st))

\* Message.from_row: the Message of one row, bound to the query's change log
\* and writable flag.
Message(m, self) == [id |-> m, changelog |-> self.changelog, writable |-> self.writable]

\* MessageQuery.__iter__: one Message per row of _build_select.
MessageQuery_iter(self, st) ==
    [i \in DOMAIN _build_select(self, st) |-> Message(_build_select(self, st)[i], self)]

\* MessageQuery.exists: SELECT EXISTS (SELECT 1 ... WHERE ... LIMIT 1).
exists(self, st) == \E m \in Msgs : m \in Matching(self, st)

\* MessageQuery.first: fetchone() of self.limit(1); <<>> is None.
first(self, st) ==
    LET q == limit(self, 1)
        rows == _build_select(q, st)
    IN IF rows = <<>> THEN <<>> ELSE <<Message(rows[1], self)>>

\* ------------------------------------------------------------- GroupedQuery
\* A text is kept as the tuple of its "-"-separated fields: "2023-12" is
\* <<2023, 12>>, "alice@example.com" is <<"alice@example.com">>, "" is <<>>.
\* A grp_key of the grouping read is such a text or SQL NULL.
SqlNull == [isnull |-> TRUE, v |-> <<>>]
SqlText(v) == [isnull |-> FALSE, v |-> v]

\* strftime('%Y', m.sent_at) and strftime('%Y-%m', m.sent_at): NULL of NULL.
strftime_Y(t) == IF t = NULL THEN SqlNull ELSE SqlText(<<t \div 10000>>)
\* (mutant) every timestamp falls in January of its year.
strftime_Ym_jan(t) ==
    IF t = NULL THEN SqlNull ELSE SqlText(<<t \div 10000, 1>>)

strftime_Ym(t) ==
    IF t = NULL THEN SqlNull ELSE SqlText(<<t \div 10000, (t \div 100) % 100>>)

_GROUP_CONFIGS ==
    {"sender", "sender_name", "domain", "year", "month", "account", "label", "recipient"}

_GROUP_SORT_FIELDS == {"key", "count", "total_size"}

\* GroupedQuery.__init__: <<>> stands for the ValueError of an unknown field;
\* base is the reference to the MessageQuery object.
GroupedQuery(base, field) ==
    IF field \notin _GROUP_CONFIGS THEN <<>>
    ELSE <<[_base |-> base, _field |-> field, _sort_field |-> "count",
            _sort_desc |-> TRUE]>>

\* MessageQuery.group_by
group_by(self_ref, field) == GroupedQuery(self_ref, field)

\* GroupedQuery.sort_by: <<>> stands for the ValueError of an unknown field.
GroupedQuery_sort_by(self, field, desc) ==
    IF field \notin _GROUP_SORT_FIELDS THEN <<>>
    ELSE <<[GroupedQuery(self._base, self._field)[1] EXCEPT
               !._sort_field = field, !._sort_desc = desc]>>

\* The rows of "FROM messages m{from_extra} WHERE {clauses}" with their
\* grp_key: an inner JOIN keeps one row per joined row and none for a message
\* that has nothing to join.  j names the joined row.
GroupRows(base, field, st) ==
    LET ms == Matching(base, st)
        sent == {m \in ms : sender_id(m) # NULL}
        row(m, k, j) == [m |-> m, key |-> k, j |-> j]
    IN CASE field = "sender" ->
              {row(m, SqlText(<<participants[sender_id(m)]>>), sender_id(m)) : m \in sent}
         [] field = "sender_name" ->
              {row(m, IF display_name[sender_id(m)] # <<>>
                      THEN SqlText(display_name[sender_id(m)])
                      ELSE SqlText(<<participants[sender_id(m)]>>), sender_id(m)) : m \in sent}
         [] field = "domain" ->
              {row(m, SqlText(<<domain[sender_id(m)]>>), sender_id(m)) : m \in sent}
         [] field = "year" -> {row(m, strftime_Y(sent_at(m)), 0) : m \in ms}
         [] field = "month" -> {row(m, strftime_Ym(sent_at(m)), 0) : m \in ms}
         [] field = "account" ->
              {row(m, SqlText(<<sources[source_id(m)]>>), source_id(m)) : m \in ms}
         [] field = "label" ->
              {row(p[1], SqlText(<<st.labels[p[2]].name>>), p[2]) :
                  p \in {x \in st.message_labels : x[1] \in ms}}
         [] field = "recipient" ->
              UNION {{row(m, SqlText(<<participants[r]>>), r) : r \in recipients(m)} :
                        m \in ms}

RECURSIVE SumSize(_)
\* SUM(m.size_estimate) over a set of rows.
SumSize(rows) ==
    IF rows = {} THEN 0
    ELSE LET r == CHOOSE x \in rows : TRUE
         IN size_estimate(r.m) + SumSize(rows \ {r})

\* The texts of the store in the order the store collates them (BINARY).
Collation ==
    <<"Alice Smith", "INBOX", "X", "alice@example.com", "bob@example.com",
      "example.com", "other@gmail.com", "test@gmail.com">>

\* Rank of a group key under ORDER BY grp_key: "" (and NULL) first, a year or
\* month by its number, any other text by its collation.
KeyRank(field, key) ==
    CASE key = <<>> -> 0
      [] field = "month" -> key[1] * 100 + key[2]
      [] field = "year" -> key[1] * 100
      [] OTHER -> CHOOSE i \in DOMAIN Collation : Collation[i] = key[1]

RECURSIVE OrderGroups(_, _, _)
\* ORDER BY grp_key / grp_count / grp_total_size; equal values come out by
\* first row.
OrderGroups(gs, col, desc) ==
    IF gs = {} THEN <<>>
    ELSE LET v(g) == IF col = "key" THEN KeyRank(g._field, g.key) ELSE g[col]
             best == {g \in gs : \A o \in gs :
                         IF desc THEN v(g) >= v(o) ELSE v(g) <= v(o)}
             x == CHOOSE g \in best : \A o \in best : g.first <= o.first
         IN <<x>> \o OrderGroups(gs \ {x}, col, desc)

\* GroupedQuery.__iter__: one Group per distinct grp_key, a NULL key read as "".
GroupedQuery_iter(self, h, st) ==
    LET rows == GroupRows(h[self._base], self._field, st)
        keys == {r.key : r \in rows}
        of(k) == {r \in rows : r.key = k}
        gs == {[key |-> IF k.isnull THEN <<>> ELSE k.v,
                count |-> Cardinality(of(k)),
                total_size |-> SumSize(of(k)),
                _query |-> self._base,
                _field |-> self._field,
                first |-> CHOOSE m \in {r.m : r \in of(k)} :
                             \A o \in {r.m : r \in of(k)} : m <= o] : k \in keys}
    IN OrderGroups(gs, self._sort_field, self._sort_desc)

\* _drill_down: the filter that stands for one group key, or ValueError when
\* the key does not parse (int("") for year, unpacking "".split("-") for month).
_drill_down(base, field, key) ==
    LET text == IF key = <<>> THEN "" ELSE key[1]
        ok(q) == [exc |-> "", q |-> <<q>>]
        fails == [exc |-> "ValueError", q |-> <<>>]
    IN CASE field = "sender" -> ok(filter(base, [sender |-> text]))
         [] field = "sender_name" -> ok(filter(base, [sender_like |-> text]))
         [] field = "domain" -> ok(filter(base, [domain |-> text]))
         [] field = "year" ->
              IF Len(key) # 1 THEN fails
              ELSE ok(filter(base, [after |-> key[1] * 10000 + 101,
                                    before |-> (key[1] + 1) * 10000 + 101]))
         [] field = "month" ->
              IF Len(key) # 2 THEN fails
              ELSE LET y == key[1]
                       mo == key[2]
                       next_month == IF mo = 12 THEN (y + 1) * 10000 + 101
                                     ELSE y * 10000 + (mo + 1) * 100 + 1
                   IN ok(filter(base, [after |-> y * 10000 + mo * 100 + 1,
                                       before |-> next_month]))
         [] field = "account" -> ok(filter(base, [account |-> text]))
         [] field = "label" -> ok(filter(base, [label |-> text]))
         [] field = "recipient" -> ok(filter(base, [recipient |-> text]))
         [] OTHER -> fails

\* ------------------------------------------------- connection and transaction
\* One sqlite3 connection's state: db is the committed store, tx the open
\* transaction's working copy (<<>> when no transaction is open).
View(cs) == IF cs.tx = <<>> THEN cs.db ELSE cs.tx[1]
\* A data-changing statement: sqlite3 opens a transaction implicitly before it.
Write(cs, st) == [cs EXCEPT !.tx = <<st>>]
\* Connection.commit
commit(cs) == [db |-> View(cs), tx |-> <<>>]

\* How the store fails during a call: at names the statement that raises
\* ("none": no failure), k the rows an executemany applied before it raised,
\* auto whether the store rolled the transaction back itself.
NoFail == [at |-> "none", k |-> 0, auto |-> FALSE]

Return(cs, n) == [cs |-> cs, ret |-> n, exc |-> ""]
Raise(cs, exc) == [cs |-> cs, ret |-> 0, exc |-> exc]
\* A statement raised sqlite3.Error: nothing in the handlers catches it.
StoreError(cs, fail) ==
    Raise(IF fail.auto THEN [cs EXCEPT !.tx = <<>>] ELSE cs, "sqlite3.Error")

\* ------------------------------------------------------------------ ChangeLog
None == <<>>

\* (mutant) the new entry takes the place of the log.
_record_overwrite(st, args) ==
    [st EXCEPT !.changelog =
        <<[id |-> 1, operation |-> args.operation, message_ids |-> args.ids,
           details |-> args.details, undo_data |-> args.undo_data, undone |-> FALSE]>>]

\* ChangeLog._record: append one entry inside the connection's transaction.
_record(st, args) ==
    [st EXCEPT !.changelog = Append(@,
        [id |-> Len(@) + 1, operation |-> args.operation, message_ids |-> args.ids,
         details |-> args.details, undo_data |-> args.undo_data, undone |-> FALSE])]

\* ChangeLog.last: the most recent entry not undone, or None.
last(st) ==
    LET open == {i \in DOMAIN st.changelog : ~st.changelog[i].undone}
    IN IF open = {} THEN None
       ELSE st.changelog[CHOOSE i \in open : \A j \in open : j <= i]

\* (mutant) undoing a delete clears every soft-delete marker.
Invert_all(st, e) ==
    LET ids == Range(e.message_ids)
    IN CASE e.operation = "delete" ->
              [st EXCEPT !.deleted_at = [m \in Msgs |-> NULL]]
         [] e.operation = "label_add" ->
              [st EXCEPT !.message_labels = @ \ {<<m, e.details.label_id>> : m \in ids}]
         [] e.operation = "label_remove" ->
              [st EXCEPT !.message_labels = @ \cup {<<m, e.undo_data.label_id>> : m \in ids}]

\* The inverse of one entry applied to the store.
Invert(st, e) ==
    LET ids == Range(e.message_ids)
    IN CASE e.operation = "delete" ->
              [st EXCEPT !.deleted_at = [m \in Msgs |-> IF m \in ids THEN NULL ELSE @[m]]]
         [] e.operation = "label_add" ->
              [st EXCEPT !.message_labels = @ \ {<<m, e.details.label_id>> : m \in ids}]
         [] e.operation = "label_remove" ->
              [st EXCEPT !.message_labels = @ \cup {<<m, e.undo_data.label_id>> : m \in ids}]

\* (mutant) the inverted entry is not marked undone.
undo_last_nomark(cs) ==
    LET e == last(View(cs))
    IN IF e = None THEN Raise(cs, "ChangeLogError")
       ELSE Return(commit(Write(cs, Invert(View(cs), e))), Len(e.message_ids))

\* ChangeLog.undo_last: invert last(), mark it undone, commit.
undo_last(cs) ==
    LET e == last(View(cs))
        s1 == Write(cs, Invert(View(cs), e))
        s2 == Write(s1, [View(s1) EXCEPT !.changelog[e.id].undone = TRUE])
    IN IF e = None THEN Raise(cs, "ChangeLogError")
       ELSE Return(commit(s2), Len(e.message_ids))

\* ------------------------------------------------------------------ mutations
\* (mutant) the gate lets every call through.
_check_writable_off(self) == TRUE

\* MessageQuery._check_writable: TRUE when the call may proceed.
_check_writable(self) == self.writable

\* (mutant) delete logs every id twice.
DeleteEntry_twice(ids) ==
    [operation |-> "delete", ids |-> ids \o ids, details |-> None, undo_data |-> None]

\* (mutant) delete logs its entry under another operation kind.
DeleteEntry_wrongkind(ids) ==
    [operation |-> "label_remove", ids |-> ids, details |-> [label |-> "INBOX"],
     undo_data |-> [label_id |-> 1]]

\* The arguments delete passes to ChangeLog._record.
DeleteEntry(ids) ==
    [operation |-> "delete", ids |-> ids, details |-> None, undo_data |-> None]

\* The arguments add_label passes to ChangeLog._record.
LabelAddEntry(name, label_id, ids) ==
    [operation |-> "label_add", ids |-> ids,
     details |-> [label |-> name, label_id |-> label_id], undo_data |-> None]

\* The arguments remove_label passes to ChangeLog._record.
LabelRemoveEntry(name, label_id, affected_ids) ==
    [operation |-> "label_remove", ids |-> affected_ids,
     details |-> [label |-> name], undo_data |-> [label_id |-> label_id]]

\* (mutant) the UPDATE has no "AND deleted_at IS NULL".
SoftDelete_all(st, ids, now) ==
    [st EXCEPT !.deleted_at = [m \in Msgs |-> IF m \in Range(ids) THEN now ELSE @[m]]]

\* UPDATE messages SET deleted_at = now WHERE id IN (ids) AND deleted_at IS NULL
SoftDelete(st, ids, now) ==
    [st EXCEPT !.deleted_at =
        [m \in Msgs |-> IF m \in Range(ids) /\ @[m] = NULL THEN now ELSE @[m]]]

\* (mutant) the lookup finds no label.
LabelRow_missing(st, name) == NULL

\* (mutant) the lookup ignores the name and takes the first label.
LabelRow_any(st, name) == IF Len(st.labels) = 0 THEN NULL ELSE 1

\* SELECT id FROM labels WHERE name = ? ... fetchone(): NULL when no row.
LabelRow(st, name) ==
    LET rows == {l \in DOMAIN st.labels : st.labels[l].name = name}
    IN IF rows = {} THEN NULL ELSE CHOOSE l \in rows : \A o \in rows : l <= o

\* (mutant) every matched id counts as affected, carrying the label or not.
AffectedIds_all(st, label_id, ids) == SeqOfSet(Range(ids))

\* SELECT message_id FROM message_labels WHERE label_id = ? AND message_id IN (ids)
AffectedIds(st, label_id, ids) ==
    SeqOfSet({m \in Range(ids) : <<m, label_id>> \in st.message_labels})

\* MessageQuery.delete
delete(self, cs, now, fail) ==
    LET ids == message_ids(self, View(cs))
        s1 == Write(cs, _record(View(cs), DeleteEntry(ids)))
        s2 == Write(s1, SoftDelete(View(s1), ids, now))
    IN IF ~_check_writable(self) THEN Raise(cs, "VaultReadOnlyError")
       ELSE IF fail.at = "ids" THEN StoreError(cs, fail)
       ELSE IF ids = <<>> THEN Return(cs, 0)
       ELSE IF fail.at = "record" THEN StoreError(cs, fail)
       ELSE IF fail.at = "rows" THEN StoreError(s1, fail)
       ELSE IF fail.at = "commit" THEN StoreError(s2, fail)
       ELSE Return(commit(s2), Len(ids))

\* MessageQuery.add_label
add_label(self, name, cs, fail) ==
    LET ids == message_ids(self, View(cs))
        row == LabelRow(View(cs), name)
        s1 == IF row # NULL THEN cs
              ELSE Write(cs, [View(cs) EXCEPT !.labels =
                       Append(@, [name |-> name, label_type |-> DefaultLabelType])])
        label_id == IF row # NULL THEN row ELSE Len(View(s1).labels)
        s2 == Write(s1, _record(View(s1), LabelAddEntry(name, label_id, ids)))
        s3(k) == Write(s2, [View(s2) EXCEPT !.message_labels =
                     @ \cup {<<ids[i], label_id>> : i \in 1..k}])
    IN IF ~_check_writable(self) THEN Raise(cs, "VaultReadOnlyError")
       ELSE IF fail.at = "ids" THEN StoreError(cs, fail)
       ELSE IF ids = <<>> THEN Return(cs, 0)
       ELSE IF fail.at = "label" THEN StoreError(cs, fail)
       ELSE IF fail.at = "record" THEN StoreError(s1, fail)
       ELSE IF fail.at = "rows" THEN StoreError(s3(fail.k), fail)
       ELSE IF fail.at = "commit" THEN StoreError(s3(Len(ids)), fail)
       ELSE Return(commit(s3(Len(ids))), Len(ids))

\* MessageQuery.remove_label
remove_label(self, name, cs, fail) ==
    LET ids == message_ids(self, View(cs))
        label_id == LabelRow(View(cs), name)
        affected_ids == AffectedIds(View(cs), label_id, ids)
        s1 == Write(cs, _record(View(cs), LabelRemoveEntry(name, label_id, affected_ids)))
        s2 == Write(s1, [View(s1) EXCEPT !.message_labels =
                     @ \ {<<m, label_id>> : m \in Range(affected_ids)}])
    IN IF ~_check_writable(self) THEN Raise(cs, "VaultReadOnlyError")
       ELSE IF fail.at = "ids" THEN StoreError(cs, fail)
       ELSE IF ids = <<>> THEN Return(cs, 0)
       ELSE IF fail.at = "label" THEN StoreError(cs, fail)
       ELSE IF label_id = NULL THEN Return(cs, 0)
       ELSE IF affected_ids = <<>> THEN Return(cs, 0)
       ELSE IF fail.at = "record" THEN StoreError(cs, fail)
       ELSE IF fail.at = "rows" THEN StoreError(s1, fail)
       ELSE IF fail.at = "commit" THEN StoreError(s2, fail)
       ELSE Return(commit(s2), Len(affected_ids))

\* ------------------------------------------------------------------- state
VARIABLES
    db,       \* the committed store: deleted_at, labels, message_labels, changelog
    txn,      \* per connection: <<>> or <<working copy of its open transaction>>
    now,      \* the store's clock (strftime 'now')
    call,     \* the most recent call: what was called, what it returned or raised
    before,   \* the store as the caller's connection saw it just before that call
    origin,   \* after an undo_last() made right after a logged mutation: that
              \* mutation's call and the store before it (<<>> otherwise)
    orphans,  \* entries and labels written by calls that raised, not rolled back
    pc,       \* per connection: the statement a stepwise mutation has reached
    loc,      \* per connection: the locals of the mutation in progress
    version,  \* number of commits made so far
    effects,  \* per committed entry: the rows its call changed itself
    heap,     \* the query objects built so far; a reference is an index
    made      \* the builder calls made so far: receiver, arguments, outcome

vars == <<db, txn, now, call, before, origin, orphans, pc, loc, version, effects,
          heap, made>>
histVars == <<call, before, origin, orphans>>
concVars == <<pc, loc, version, effects>>
queryVars == <<heap, made>>

\* Label names the callers use: INBOX exists from the start, X does not.
LabelNames == {"INBOX", "X"}

SeedLabels == <<[name |-> "INBOX", label_type |-> "system"]>>

\* The queries callers hold: a writable one bound to a change log (as the
\* writable_mq fixture builds it) and a read-only one, each refined by the builder.
WritableQuery == MessageQuery(1, <<1>>, TRUE)
ReadOnlyQuery == MessageQuery(1, None, FALSE)

Kwargs == {<<>>, [sender |-> "alice@example.com"], [label |-> "INBOX"],
           [is_deleted |-> "True"], [is_deleted |-> "None"]}

Queries ==
    {filter(WritableQuery, k) : k \in Kwargs}
    \cup {limit(WritableQuery, 1), offset(filter(WritableQuery, [is_deleted |-> "None"]), 1)}
    \cup {ReadOnlyQuery, filter(ReadOnlyQuery, [is_deleted |-> "None"])}

Cs(c) == [db |-> db, tx |-> txn[c]]

\* The receiver of a call as the history keeps it: the query, its writable
\* flag and the ids it matched just before the call.
Receiver(q) == [self |-> <<q>>, writable |-> q.writable,
                ids |-> message_ids(q, View(Cs(q.conn)))]
\* ChangeLog.undo_last has no query as its receiver.
NoReceiver == [self |-> <<>>, writable |-> TRUE, ids |-> <<>>]

\* wrote: the call changed its connection's state (open transaction or
\* committed store); committed: it changed the committed store.
NoCall == [op |-> "none", self |-> <<>>, writable |-> FALSE, ids |-> <<>>, name |-> "",
           ret |-> 0, exc |-> "", wrote |-> FALSE, committed |-> FALSE]

NoLocals == [op |-> "", ids |-> <<>>, name |-> "", label_id |-> NULL,
             snap_version |-> 0, changed |-> {}]

\* The clock stops ticking here (a tick goes with a logged delete).
MaxClock == SeedDeletedAt + 1 + MaxLog

Init ==
    /\ db \in [deleted_at : {[m \in Msgs |-> IF m \in D THEN SeedDeletedAt ELSE NULL] :
                                D \in {{}, {NumMsgs}}},
               labels : {SeedLabels},
               message_labels : SUBSET (Msgs \X {1}),
               changelog : {<<>>}]
    /\ txn = [c \in Conns |-> <<>>]
    /\ now = SeedDeletedAt + 1
    /\ call = NoCall
    /\ before = db
    /\ origin = <<>>
    /\ orphans = [entries |-> {}, labels |-> {}]
    /\ pc = [c \in Conns |-> "idle"]
    /\ loc = [c \in Conns |-> NoLocals]
    /\ version = 0
    /\ effects = <<>>
    /\ heap = <<>>
    /\ made = <<>>

\* The call just made appended a change-log entry on its connection.
Logged(r, cs) == Len(View(r.cs).changelog) > Len(View(cs).changelog)

\* What a call that raised left behind in its connection's open transaction.
Orphaned(r, cs) ==
    IF r.exc # "sqlite3.Error" THEN orphans
    ELSE IF r.cs.tx = <<>> THEN [entries |-> {}, labels |-> {}]
    ELSE [entries |-> orphans.entries \cup
                      (DOMAIN View(r.cs).changelog \ DOMAIN View(cs).changelog),
          labels |-> orphans.labels \cup
                      (DOMAIN View(r.cs).labels \ DOMAIN View(cs).labels)]

\* One complete call on connection c with outcome r.
Finish(c, op, rcv, name, r) ==
    /\ db' = r.cs.db
    /\ txn' = [txn EXCEPT ![c] = r.cs.tx]
    /\ before' = View(Cs(c))
    /\ call' = [op |-> op, self |-> rcv.self, writable |-> rcv.writable, ids |-> rcv.ids,
                name |-> name, ret |-> r.ret, exc |-> r.exc,
                wrote |-> (r.cs # Cs(c)), committed |-> (r.cs.db # db)]
    /\ origin' = IF /\ op = "undo_last"
                    /\ call.op \in {"delete", "add_label", "remove_label"}
                    /\ call.exc = ""
                    /\ Len(View(Cs(c)).changelog) > Len(before.changelog)
                 THEN <<[call |-> call, before |-> before]>>
                 ELSE <<>>
    /\ orphans' = Orphaned(r, Cs(c))
    /\ version' = IF r.exc = "" /\ r.cs.db # db THEN version + 1 ELSE version
    /\ effects' = IF Logged(r, Cs(c)) /\ r.exc = ""
                  THEN [i \in DOMAIN r.cs.db.changelog |->
                          IF i \in DOMAIN effects THEN effects[i]
                          ELSE {m \in Msgs : r.cs.db.deleted_at[m] # db.deleted_at[m]}]
                  ELSE effects
    /\ UNCHANGED <<pc, loc, heap, made>>

Room(c) == Len(View(Cs(c)).changelog) < MaxLog

DeleteCall(q, fail) ==
    /\ Room(q.conn)
    /\ now < MaxClock
    /\ Finish(q.conn, "delete", Receiver(q), "", delete(q, Cs(q.conn), now, fail))
    /\ now' = IF Logged(delete(q, Cs(q.conn), now, fail), Cs(q.conn))
              THEN now + 1 ELSE now

AddLabelCall(q, name, fail) ==
    /\ Room(q.conn)
    /\ Finish(q.conn, "add_label", Receiver(q), name,
              add_label(q, name, Cs(q.conn), fail))
    /\ UNCHANGED now

RemoveLabelCall(q, name, fail) ==
    /\ Room(q.conn)
    /\ Finish(q.conn, "remove_label", Receiver(q), name,
              remove_label(q, name, Cs(q.conn), fail))
    /\ UNCHANGED now

Delete(q) == DeleteCall(q, NoFail)
AddLabel(q, name) == AddLabelCall(q, name, NoFail)
RemoveLabel(q, name) == RemoveLabelCall(q, name, NoFail)

UndoLast(c) ==
    /\ Finish(c, "undo_last", NoReceiver, "", undo_last(Cs(c)))
    /\ UNCHANGED now

\* One caller, one connection, a store that never fails.
Next ==
    \/ \E q \in Queries : Delete(q)
    \/ \E q \in Queries, name \in LabelNames : AddLabel(q, name)
    \/ \E q \in Queries, name \in LabelNames : RemoveLabel(q, name)
    \/ UndoLast(1)

Spec == Init /\ [][Next]_vars

\* ------------------------------------------------------- a store that fails
Fails ==
    {NoFail}
    \cup {[at |-> a, k |-> 0, auto |-> FALSE] : a \in {"ids", "label", "record", "commit"}}
    \cup {[at |-> "rows", k |-> 1, auto |-> b] : b \in BOOLEAN}

FailQueries == {WritableQuery, ReadOnlyQuery}

DeleteF == \E q \in FailQueries, fail \in Fails : DeleteCall(q, fail)
AddLabelF == \E q \in FailQueries, name \in LabelNames, fail \in Fails :
                AddLabelCall(q, name, fail)
RemoveLabelF == \E q \in FailQueries, name \in LabelNames, fail \in Fails :
                   RemoveLabelCall(q, name, fail)

NextFail == DeleteF \/ AddLabelF \/ RemoveLabelF \/ UndoLast(1)

SpecFail == Init /\ [][NextFail]_vars

\* ------------------------------------------------------ two concurrent writers
\* Each caller has its own connection and runs delete() or add_label() one
\* statement at a time; the store lets one connection write at a time.
QueryOf(c) == MessageQuery(c, <<c>>, TRUE)

WriteLockFree(c) == \A o \in Conns \ {c} : txn[o] = <<>>

InFlight == Cardinality({c \in Conns : pc[c] # "idle"})

\* self._check_writable(); ids = self.message_ids(); if not ids: return 0
CSnapshot(c, op, name) ==
    /\ pc[c] = "idle"
    /\ Len(db.changelog) + InFlight < MaxLog
    /\ _check_writable(QueryOf(c))
    /\ message_ids(QueryOf(c), View(Cs(c))) # <<>>
    /\ loc' = [loc EXCEPT ![c] = [op |-> op, name |-> name, label_id |-> NULL,
                                  ids |-> message_ids(QueryOf(c), View(Cs(c))),
                                  snap_version |-> version, changed |-> {}]]
    /\ pc' = [pc EXCEPT ![c] = IF op = "add_label" THEN "label" ELSE "record"]
    /\ UNCHANGED <<db, txn, now, version, effects>>
    /\ UNCHANGED histVars
    /\ UNCHANGED queryVars

\* add_label: get or create the label.
CLabel(c) ==
    /\ pc[c] = "label"
    /\ LET row == LabelRow(View(Cs(c)), loc[c].name)
           s1 == Write(Cs(c), [View(Cs(c)) EXCEPT !.labels =
                     Append(@, [name |-> loc[c].name, label_type |-> DefaultLabelType])])
       IN IF row # NULL
          THEN /\ loc' = [loc EXCEPT ![c].label_id = row]
               /\ UNCHANGED txn
          ELSE /\ WriteLockFree(c)
               /\ txn' = [txn EXCEPT ![c] = s1.tx]
               /\ loc' = [loc EXCEPT ![c].label_id = Len(View(s1).labels)]
    /\ pc' = [pc EXCEPT ![c] = "record"]
    /\ UNCHANGED <<db, now, version, effects>>
    /\ UNCHANGED histVars
    /\ UNCHANGED queryVars

\* self._changelog._record(...)
CRecord(c) ==
    /\ pc[c] = "record"
    /\ WriteLockFree(c)
    /\ LET args == IF loc[c].op = "delete" THEN DeleteEntry(loc[c].ids)
                   ELSE LabelAddEntry(loc[c].name, loc[c].label_id, loc[c].ids)
       IN txn' = [txn EXCEPT ![c] = Write(Cs(c), _record(View(Cs(c)), args)).tx]
    /\ pc' = [pc EXCEPT ![c] = "rows"]
    /\ UNCHANGED <<db, now, loc, version, effects>>
    /\ UNCHANGED histVars
    /\ UNCHANGED queryVars

\* The UPDATE of delete, the executemany of add_label.
CRows(c) ==
    /\ pc[c] = "rows"
    /\ LET st == View(Cs(c))
           st2 == IF loc[c].op = "delete" THEN SoftDelete(st, loc[c].ids, now)
                  ELSE [st EXCEPT !.message_labels =
                           @ \cup {<<m, loc[c].label_id>> : m \in Range(loc[c].ids)}]
       IN /\ txn' = [txn EXCEPT ![c] = <<st2>>]
          /\ loc' = [loc EXCEPT ![c].changed =
                        {m \in Msgs : st2.deleted_at[m] # st.deleted_at[m]}]
    /\ now' = IF loc[c].op = "delete" THEN now + 1 ELSE now
    /\ pc' = [pc EXCEPT ![c] = "commit"]
    /\ UNCHANGED <<db, version, effects>>
    /\ UNCHANGED histVars
    /\ UNCHANGED queryVars

\* self._conn.commit(); return len(ids)
CCommit(c) ==
    /\ pc[c] = "commit"
    /\ db' = commit(Cs(c)).db
    /\ txn' = [txn EXCEPT ![c] = <<>>]
    /\ version' = version + 1
    /\ effects' = [i \in DOMAIN db'.changelog |->
                     IF i \in DOMAIN effects THEN effects[i] ELSE loc[c].changed]
    /\ pc' = [pc EXCEPT ![c] = "idle"]
    /\ UNCHANGED <<now, loc>>
    /\ UNCHANGED histVars
    /\ UNCHANGED queryVars

NextConc ==
    \/ \E c \in Conns, op \in {"delete", "add_label"}, name \in {"X"} :
          CSnapshot(c, op, name)
    \/ \E c \in Conns : CLabel(c)
    \/ \E c \in Conns : CRecord(c)
    \/ \E c \in Conns : CRows(c)
    \/ \E c \in Conns : CCommit(c)

SpecConc == Init /\ [][NextConc]_vars

\* ------------------------------------------------------- the query builder
\* Callers build queries from a base query with filter, sort_by, limit,
\* offset and group_by, and drill down into groups; the store stays as it is.
MaxCalls == 2

\* (mutant) the builder changes the receiver in place and returns it.
New_inplace(h, self_ref, obj) == [heap |-> [h EXCEPT ![self_ref] = obj], ret |-> self_ref]

\* _clone's MessageQuery(...) and group_by's GroupedQuery(...): a new object.
New(h, self_ref, obj) == [heap |-> Append(h, obj), ret |-> Len(h) + 1]

IsQuery(obj) == "filters" \in DOMAIN obj
IsGrouped(obj) == "_field" \in DOMAIN obj

\* The queries a caller starts from (vault.messages and refinements of it).
BaseQueries ==
    {ReadOnlyQuery, limit(ReadOnlyQuery, 1),
     offset(filter(ReadOnlyQuery, [is_deleted |-> "None"]), 1), WritableQuery}

\* Filter requests: one per kind of predicate, and the three is_deleted values.
FilterKwargs ==
    {[sender |-> "alice@example.com"], [label |-> "INBOX"], [min_size |-> 2000],
     [is_deleted |-> "True"], [is_deleted |-> "False"], [is_deleted |-> "None"],
     [label |-> "INBOX", is_deleted |-> "None"]}

InitQuery ==
    /\ db \in [deleted_at : {[m \in Msgs |-> IF m \in D THEN SeedDeletedAt ELSE NULL] :
                                D \in {{}, {1}, {NumMsgs}}},
               labels : {SeedLabels},
               message_labels : {{}, {<<1, 1>>, <<2, 1>>}},
               changelog : {<<>>}]
    /\ txn = [c \in Conns |-> <<>>]
    /\ now = SeedDeletedAt + 1
    /\ call = NoCall
    /\ before = db
    /\ origin = <<>>
    /\ orphans = [entries |-> {}, labels |-> {}]
    /\ pc = [c \in Conns |-> "idle"]
    /\ loc = [c \in Conns |-> NoLocals]
    /\ version = 0
    /\ effects = <<>>
    /\ heap \in {<<q>> : q \in BaseQueries}
    /\ made = <<>>

\* One builder call on the object self_ref; res is <<the object to return>>
\* or <<>> when the call raises exc.
BuilderCall(self_ref, op, args, res, exc) ==
    /\ Len(made) < MaxCalls
    /\ LET d == IF res = <<>> THEN [heap |-> heap, ret |-> 0]
                ELSE New(heap, self_ref, res[1])
       IN /\ heap' = d.heap
          /\ made' = Append(made, [op |-> op, recv |-> self_ref, before |-> heap[self_ref],
                                   args |-> args, ret |-> d.ret,
                                   exc |-> IF res = <<>> THEN exc ELSE ""])
    /\ UNCHANGED <<db, txn, now, pc, loc, version, effects>>
    /\ UNCHANGED histVars

Filter(o, kwargs) ==
    /\ IsQuery(heap[o])
    /\ BuilderCall(o, "filter", kwargs, <<filter(heap[o], kwargs)>>, "")

SortBy(o, field, desc) ==
    /\ IsQuery(heap[o])
    /\ BuilderCall(o, "sort_by", <<field, desc>>, sort_by(heap[o], field, desc), "ValueError")

Limit(o, n) ==
    /\ IsQuery(heap[o])
    /\ BuilderCall(o, "limit", <<n>>, <<limit(heap[o], n)>>, "")

Offset(o, n) ==
    /\ IsQuery(heap[o])
    /\ BuilderCall(o, "offset", <<n>>, <<offset(heap[o], n)>>, "")

GroupBy(o, field) ==
    /\ IsQuery(heap[o])
    /\ BuilderCall(o, "group_by", <<field>>, group_by(o, field), "ValueError")

GroupSortBy(o, field, desc) ==
    /\ IsGrouped(heap[o])
    /\ BuilderCall(o, "group_sort_by", <<field, desc>>,
                   GroupedQuery_sort_by(heap[o], field, desc), "ValueError")

ReadOps == {"iter", "count", "first", "exists", "message_ids"}

\* self._conn.execute(sql, params) and the fetch: the value read, or the
\* sqlite3.Error the store raised, which no handler of the read catches.
Execute(value, fails) ==
    IF fails THEN [ret |-> <<>>, exc |-> "sqlite3.Error"]
    ELSE [ret |-> value, exc |-> ""]

\* One read operation on the query o; fails says whether the store fails.
Read(o, op, fails) ==
    /\ IsQuery(heap[o])
    /\ Len(made) < MaxCalls
    /\ LET self == heap[o]
           r == Execute(CASE op = "iter" -> MessageQuery_iter(self, db)
                          [] op = "count" -> count(self, db)
                          [] op = "first" -> first(self, db)
                          [] op = "exists" -> exists(self, db)
                          [] op = "message_ids" -> message_ids(self, db), fails)
       IN made' = Append(made, [op |-> op, recv |-> o, before |-> self,
                                args |-> <<>>, ret |-> r.ret, exc |-> r.exc])
    /\ UNCHANGED <<db, txn, now, pc, loc, version, effects, heap>>
    /\ UNCHANGED histVars

\* Group.messages of the i-th group a GroupedQuery yields.
Messages(o, i) ==
    /\ IsGrouped(heap[o])
    /\ i \in DOMAIN GroupedQuery_iter(heap[o], heap, db)
    /\ LET g == GroupedQuery_iter(heap[o], heap, db)[i]
           r == _drill_down(heap[g._query], g._field, g.key)
       IN BuilderCall(g._query, "messages", g, r.q, r.exc)

NextQuery ==
    \/ \E o \in DOMAIN heap, kwargs \in FilterKwargs : Filter(o, kwargs)
    \/ \E o \in DOMAIN heap, field \in {"size", "priority"}, desc \in BOOLEAN :
          SortBy(o, field, desc)
    \/ \E o \in DOMAIN heap, n \in {0, 1} : Limit(o, n)
    \/ \E o \in DOMAIN heap : Offset(o, 1)
    \/ \E o \in DOMAIN heap, field \in _GROUP_CONFIGS \cup {"thread"} : GroupBy(o, field)
    \/ \E o \in DOMAIN heap, field \in {"key", "total_size", "size"}, desc \in BOOLEAN :
          GroupSortBy(o, field, desc)
    \/ \E o \in DOMAIN heap, op \in ReadOps, fails \in BOOLEAN : Read(o, op, fails)
    \/ \E o \in DOMAIN heap, i \in 1..NumMsgs * 2 : Messages(o, i)

SpecQuery == InitQuery /\ [][NextQuery]_vars

\* ------------------------------------------------------------ vocabulary
Mutations == {"delete", "add_label", "remove_label"}

\* The store as the caller's connection sees it.
store == View(Cs(1))

Alive(st, m) == st.deleted_at[m] = NULL
Carries(st, m, name) == Holds(_Filter("label =", <<name>>), m, st)

\* The call just completed was a mutation that returned and logged an entry.
CallLogged ==
    /\ call.op \in Mutations
    /\ call.exc = ""
    /\ Len(store.changelog) > Len(before.changelog)

\* Entries the call just completed marked undone.
UndoneNow ==
    {i \in DOMAIN before.changelog :
        store.changelog[i].undone /\ ~before.changelog[i].undone}

\* The call just completed was an undo_last() that returned, made right after
\* a mutation that logged an entry of kind operation.
UndidRightAfter(operation) ==
    /\ call.op = "undo_last"
    /\ call.exc = ""
    /\ origin # <<>>
    /\ \E i \in UndoneNow : store.changelog[i].operation = operation

\* The messages whose marker or associations the call just completed changed.
Changed ==
    {m \in Msgs : store.deleted_at[m] # before.deleted_at[m]}
    \cup {p[1] : p \in (store.message_labels \ before.message_labels)
                        \cup (before.message_labels \ store.message_labels)}

\* The ids of the entry the call just completed logged ({} when it logged none).
LoggedIds ==
    IF Len(store.changelog) > Len(before.changelog)
    THEN Range(store.changelog[Len(store.changelog)].message_ids)
    ELSE {}

\* delete(), add_label() and remove_label() on q all raise the read-only error.
FailsClosed(q) ==
    /\ delete(q, Cs(q.conn), now, NoFail).exc = "VaultReadOnlyError"
    /\ \A name \in LabelNames :
          /\ add_label(q, name, Cs(q.conn), NoFail).exc = "VaultReadOnlyError"
          /\ remove_label(q, name, Cs(q.conn), NoFail).exc = "VaultReadOnlyError"

\* The builder calls of the given kinds that returned an object.
Calls(ops) == {i \in DOMAIN made : made[i].op \in ops /\ made[i].exc = ""}

\* A query on which no is_deleted selector was ever set.
NoSelector(q) ==
    /\ ~q.include_deleted
    /\ \A i \in DOMAIN q.filters :
          q.filters[i].clause \notin {"deleted_at IS NULL", "deleted_at IS NOT NULL"}

\* Row m satisfies the predicates of q other than the is_deleted ones.
OtherPredicates(q, m) ==
    \A i \in DOMAIN q.filters :
        q.filters[i].clause \notin {"deleted_at IS NULL", "deleted_at IS NOT NULL"}
            => Holds(q.filters[i], m, db)

\* The query q without its pagination.
Unpaged(q) == _clone(q, [limit |-> <<>>, offset |-> <<>>])

\* The ids of the messages iterating q yields, in the order it yields them.
IterIds(q, st) == [i \in DOMAIN MessageQuery_iter(q, st) |-> MessageQuery_iter(q, st)[i].id]

RECURSIVE SumOf(_, _)
\* The sum of one attribute over the groups a GroupedQuery yielded.
SumOf(gs, col) == IF gs = <<>> THEN 0 ELSE gs[1][col] + SumOf(Tail(gs), col)

\* The ids Group.messages yields for group g, {} when the drill-down raises.
DrillIds(g) ==
    LET r == _drill_down(heap[g._query], g._field, g.key)
    IN IF r.exc # "" THEN {} ELSE Range(message_ids(r.q[1], db))

\* ------------------------------------------------------------------ claims
\* C1: a logged delete/add_label/remove_label followed at once by undo_last()
\* leaves every message's alive/deleted status and every message-label
\* association as they were just before the mutation.
C1_ExactReversal ==
    [][(CallLogged /\ call'.op = "undo_last")
        => /\ \A m \in Msgs : Alive(store', m) = Alive(before, m)
           /\ store'.message_labels = before.message_labels]_vars

\* C2: for a query with a non-empty id snapshot S, after delete() no message
\* of S is alive, and after one undo_last() every message of S is alive and
\* its alive/deleted state is what it was before the delete.
C2_DeleteUndoRoundTrip ==
    [][(call.op = "delete" /\ call.exc = "" /\ call.ids # <<>>)
        => /\ \A m \in Range(call.ids) : ~Alive(store, m)
           /\ call'.op = "undo_last" =>
                \A m \in Range(call.ids) :
                    Alive(store', m) /\ Alive(store', m) = Alive(before, m)]_vars

\* C3: with S the ids matched before the call, after add_label(X) every id of
\* S carries X and no earlier association is lost; after one undo_last() no id
\* of S carries X.
C3_AddLabelUndoRoundTrip ==
    /\ (call.op = "add_label" /\ call.exc = "")
        => /\ \A m \in Range(call.ids) : Carries(store, m, call.name)
           /\ before.message_labels \subseteq store.message_labels
    /\ (origin # <<>> /\ origin[1].call.op = "add_label")
        => \A m \in Range(origin[1].call.ids) : ~Carries(store, m, origin[1].call.name)

C3_Witness ==
    /\ UndidRightAfter("label_add")
    /\ Len(origin[1].call.ids) >= 2
    /\ \E m \in Range(origin[1].call.ids) :
          Carries(origin[1].before, m, origin[1].call.name)

\* C4: remove_label(L) returns the number of matched messages that carried L,
\* logs exactly that subset, removes exactly those associations, and a
\* following undo_last() restores the association for exactly that subset.
C4_RemoveLabelPrecision ==
    /\ (call.op = "remove_label" /\ call.exc = "")
        => LET carried == {m \in Range(call.ids) : Carries(before, m, call.name)}
               gone == before.message_labels \ store.message_labels
           IN /\ call.ret = Cardinality(carried)
              /\ {p[1] : p \in gone} = carried
              /\ Cardinality(gone) = Cardinality(carried)
              /\ store.message_labels \subseteq before.message_labels
              /\ carried # {} =>
                    LET e == store.changelog[Len(store.changelog)]
                    IN /\ Len(store.changelog) = Len(before.changelog) + 1
                       /\ e.operation = "label_remove"
                       /\ Range(e.message_ids) = carried
                       /\ Len(e.message_ids) = Cardinality(carried)
    /\ (origin # <<>> /\ origin[1].call.op = "remove_label")
        => store.message_labels = origin[1].before.message_labels

C4_Witness ==
    /\ UndidRightAfter("label_remove")
    /\ origin[1].call.ret >= 1
    /\ origin[1].call.ret < Len(origin[1].call.ids)

\* C5: delete(), add_label() and remove_label() on a query that is not
\* writable raise the read-only error before any statement reaches the store
\* (a failing store is not even noticed), and leave the change log, the
\* soft-delete markers, the labels and the associations untouched.
C5_ReadOnlyGate ==
    (call.op \in Mutations /\ ~call.writable)
        => /\ call.exc = "VaultReadOnlyError"
           /\ ~call.wrote
           /\ store = before

C5_Witness ==
    /\ call.op \in Mutations
    /\ ~call.writable
    /\ call.exc = "VaultReadOnlyError"
    /\ Len(call.ids) >= 2

\* C6: when the store fails during a mutation, nothing that call wrote - its
\* log entry, a label it created - is persisted, neither by the failing call
\* nor by a later commit on the same connection.
C6_FailedMutationLeavesNothing ==
    /\ call.exc = "sqlite3.Error" => ~call.committed
    /\ orphans.entries \cap DOMAIN db.changelog = {}
    /\ orphans.labels \cap DOMAIN db.labels = {}

\* C7: under two writers no other writer's commit falls between a call's id
\* snapshot and its row mutation, and every id a committed delete entry
\* records had its soft-delete marker set by the call that logged it.
C7_SingleTransactionalBoundary ==
    /\ \A c \in Conns : pc[c] = "commit" => loc[c].snap_version = version
    /\ \A i \in DOMAIN db.changelog :
          db.changelog[i].operation = "delete"
              => Range(db.changelog[i].message_ids) \subseteq effects[i]

\* C8: last() is the most recently recorded entry among those not undone, or
\* None when there is none; right after a mutation that logged an entry it is
\* that entry, with the mutation's operation kind.
OperationOf(op) ==
    CASE op = "delete" -> "delete"
      [] op = "add_label" -> "label_add"
      [] op = "remove_label" -> "label_remove"

C8_LastIsMostRecentOpen ==
    LET L == store.changelog
        e == last(store)
    IN /\ (e = None) <=> (\A i \in DOMAIN L : L[i].undone)
       /\ e # None => /\ e.id \in DOMAIN L
                      /\ e = L[e.id]
                      /\ ~e.undone
                      /\ \A j \in DOMAIN L : j > e.id => L[j].undone
       /\ CallLogged => /\ e # None
                        /\ e.id = Len(L)
                        /\ e.id = Len(before.changelog) + 1
                        /\ e.operation = OperationOf(call.op)

C8_Witness ==
    /\ call.op = "delete"
    /\ CallLogged
    /\ Len(store.changelog) = 2
    /\ store.changelog[1].undone

\* C9: undo_last() inverts the most recent entry not undone and marks it
\* undone; an entry once undone stays undone, so none is inverted twice; with
\* no such entry it raises the nothing-to-undo error and changes nothing.
C9_UndoLastOnce ==
    LET B == before.changelog
        open == {i \in DOMAIN B : ~B[i].undone}
        top == CHOOSE i \in open : \A j \in open : j <= i
    IN /\ \A i \in DOMAIN B : B[i].undone => store.changelog[i].undone
       /\ call.op # "undo_last" => UndoneNow = {}
       /\ (call.op = "undo_last" /\ open = {})
            => call.exc = "ChangeLogError" /\ ~call.wrote /\ store = before
       /\ (call.op = "undo_last" /\ open # {})
            => /\ call.exc = ""
               /\ UndoneNow = {top}
               /\ store = [Invert(before, B[top]) EXCEPT !.changelog[top].undone = TRUE]
               /\ B[top].operation = "delete"
                    => \A m \in Range(B[top].message_ids) : Alive(store, m)
               /\ B[top].operation = "label_add"
                    => \A m \in Range(B[top].message_ids) :
                          <<m, B[top].details.label_id>> \notin store.message_labels
               /\ B[top].operation = "label_remove"
                    => \A m \in Range(B[top].message_ids) :
                          <<m, B[top].undo_data.label_id>> \in store.message_labels

C9_Witness ==
    /\ call.op = "undo_last"
    /\ call.exc = "ChangeLogError"
    /\ Len(store.changelog) = 2

\* C10: undo_last() never inverts an entry that was recorded before another
\* entry: after M1, M2 and an undo_last() that inverted M2, a further
\* undo_last() does not invert M1.
C10_NoMultiLevelUndo ==
    call.op = "undo_last" => \A i \in UndoneNow : i = Len(store.changelog)

\* C11: change-log entries are append-only and immutable: across every call
\* no entry is removed, no entry's id, operation, message_ids, details or
\* undo_data changes, and an undone flag never goes back to false.
C11_LogAppendOnly ==
    LET B == before.changelog
        L == store.changelog
    IN /\ Len(B) <= Len(L)
       /\ \A i \in DOMAIN B :
             /\ L[i].id = B[i].id
             /\ L[i].operation = B[i].operation
             /\ L[i].message_ids = B[i].message_ids
             /\ L[i].details = B[i].details
             /\ L[i].undo_data = B[i].undo_data
             /\ B[i].undone => L[i].undone

C11_Witness ==
    /\ call.op = "undo_last"
    /\ call.exc = ""
    /\ Len(before.changelog) = 2
    /\ before.changelog[2].undone
    /\ store.changelog[1].undone

\* C12: a mutation call that returns n > 0 appends exactly one entry, of the
\* call's kind, listing n distinct ids; a call that returns 0 appends no
\* entry, creates no label and changes no row.
C12_OneEntryPerEffectiveCall ==
    (call.op \in Mutations /\ call.exc = "")
        => LET B == before.changelog
               L == store.changelog
           IN /\ call.ret > 0
                   => /\ Len(L) = Len(B) + 1
                      /\ L[Len(L)].operation = OperationOf(call.op)
                      /\ Len(L[Len(L)].message_ids) = call.ret
                      /\ Cardinality(Range(L[Len(L)].message_ids)) = call.ret
              /\ call.ret = 0 => store = before /\ ~call.wrote

C12_Witness ==
    /\ call.op = "remove_label"
    /\ call.exc = ""
    /\ call.ret = 0
    /\ Len(call.ids) >= 2
    /\ Len(store.changelog) = 1

\* C13: delete() returns the number of messages whose soft-delete marker the
\* call set (alive before it, deleted after it), also for queries that
\* include deleted messages.
C13_DeleteReturnsAffected ==
    (call.op = "delete" /\ call.exc = "")
        => call.ret = Cardinality({m \in Msgs : Alive(before, m) /\ ~Alive(store, m)})

\* C14: filter, sort_by, limit, offset and group_by never change the
\* receiver: its predicates, sort, limit, offset and include-deleted flag and
\* its results stay as they were, and the value returned is another object.
C14_QueryImmutability ==
    \A i \in DOMAIN made :
        made[i].op \in {"filter", "sort_by", "limit", "offset", "group_by"}
            => LET c == made[i]
                   self == heap[c.recv]
               IN /\ self.filters = c.before.filters
                  /\ self.sort = c.before.sort
                  /\ self.limit = c.before.limit
                  /\ self.offset = c.before.offset
                  /\ self.include_deleted = c.before.include_deleted
                  /\ message_ids(self, db) = message_ids(c.before, db)
                  /\ count(self, db) = count(c.before, db)
                  /\ c.exc = "" => c.ret # c.recv /\ c.ret \in DOMAIN heap

C14_Witness ==
    /\ Len(made) = 2
    /\ made[1].op = "filter"
    /\ made[2].op = "group_by"
    /\ made[2].recv = made[1].recv
    /\ made[1].exc = "" /\ made[2].exc = ""
    /\ heap[made[1].ret].filters # heap[made[1].recv].filters

\* C15 (as stated): for every query Q and every filter request F, the
\* is_deleted selector included, Q.filter(F).count() <= Q.count().
C15_FiltersOnlyNarrow ==
    \A i \in Calls({"filter"}) :
        count(heap[made[i].ret], db) <= count(made[i].before, db)

\* C15 (amended): Q.filter(F).count() <= Q.count() unless F sets is_deleted to
\* True or None on a query that still excludes deleted messages; in every
\* case Q.filter(F).count() <= Q.filter(is_deleted=None).count().
C15_FiltersNarrowButDeletedSelector ==
    \A i \in Calls({"filter"}) :
        LET c == made[i]
            widens == /\ "is_deleted" \in DOMAIN c.args
                      /\ c.args["is_deleted"] \in {"True", "None"}
                      /\ ~c.before.include_deleted
        IN /\ ~widens => count(heap[c.ret], db) <= count(c.before, db)
           /\ count(heap[c.ret], db)
                 <= count(filter(c.before, [is_deleted |-> "None"]), db)

C15_Witness ==
    \E i \in Calls({"filter"}) :
        /\ "is_deleted" \in DOMAIN made[i].args
        /\ made[i].args["is_deleted"] = "False"
        /\ made[i].before.include_deleted
        /\ count(heap[made[i].ret], db) < count(made[i].before, db)

\* C16: AND-composition of predicates is commutative and associative:
\* Q.filter(X).filter(Y), Q.filter(Y).filter(X) and, when X and Y name
\* different keys, the single call Q.filter(X and Y) match the same messages.
C16_FilterComposition ==
    \A i, j \in Calls({"filter"}) :
        made[j].recv = made[i].ret
            => LET Q == made[i].before
                   X == made[i].args
                   Y == made[j].args
                   XY == [k \in DOMAIN X \cup DOMAIN Y |->
                            IF k \in DOMAIN X THEN X[k] ELSE Y[k]]
                   got == heap[made[j].ret]
               IN /\ Matching(got, db) = Matching(filter(filter(Q, Y), X), db)
                  /\ Range(message_ids(got, db))
                        = Range(message_ids(filter(filter(Q, Y), X), db))
                  /\ DOMAIN X \cap DOMAIN Y = {}
                        => Matching(got, db) = Matching(filter(Q, XY), db)

C16_Witness ==
    \E i, j \in Calls({"filter"}) :
        /\ made[j].recv = made[i].ret
        /\ "is_deleted" \in DOMAIN made[i].args
        /\ "label" \in DOMAIN made[j].args
        /\ "is_deleted" \notin DOMAIN made[j].args
        /\ Matching(heap[made[j].ret], db) # {}
        /\ Matching(heap[made[j].ret], db) # Matching(heap[made[i].ret], db)

\* C17: a query with no is_deleted selector matches only alive messages; on
\* such a query filter(is_deleted=True) matches exactly the deleted messages
\* that satisfy the other predicates, is_deleted=False exactly the alive
\* ones, is_deleted=None all of them; and a query on which True or None was
\* set carries no implicit alive-only clause, nor does any query built from it.
C17_SoftDeleteSelector ==
    /\ \A o \in DOMAIN heap :
          IsQuery(heap[o]) /\ NoSelector(heap[o])
              => Matching(heap[o], db)
                    = {m \in Msgs : Alive(db, m) /\ OtherPredicates(heap[o], m)}
    /\ \A i \in Calls({"filter"}) :
          LET c == made[i]
              q == heap[c.ret]
              sel == c.args["is_deleted"]
          IN /\ ("is_deleted" \in DOMAIN c.args /\ NoSelector(c.before))
                  => Matching(q, db) =
                       {m \in Msgs : /\ OtherPredicates(q, m)
                                     /\ sel = "True" => ~Alive(db, m)
                                     /\ sel = "False" => Alive(db, m)}
             /\ ("is_deleted" \in DOMAIN c.args /\ sel \in {"True", "None"})
                  => q.include_deleted
    /\ \A i \in Calls({"filter", "sort_by", "limit", "offset", "messages"}) :
          made[i].before.include_deleted => heap[made[i].ret].include_deleted
    /\ \A o \in DOMAIN heap :
          IsQuery(heap[o]) /\ heap[o].include_deleted
              => _base_where(heap[o]) = heap[o].filters

C17_Witness ==
    \E i \in Calls({"filter"}) :
        /\ "is_deleted" \in DOMAIN made[i].args
        /\ made[i].args["is_deleted"] = "True"
        /\ NoSelector(made[i].before)
        /\ Len(heap[made[i].ret].filters) >= 2
        /\ Matching(heap[made[i].ret], db) # {}

\* C18: for a default alive-only query Q and a field among sender, domain,
\* year, month, account, the counts of Q.group_by(field) add up to Q.count()
\* and the total sizes to the size of Q's matches; a match with no sender or
\* no timestamp is counted under the empty key.
C18_GroupingPartition ==
    \A i \in Calls({"group_by"}) :
        LET c == made[i]
            gs == GroupedQuery_iter(heap[c.ret], heap, db)
        IN (~c.before.include_deleted
              /\ c.args[1] \in {"sender", "domain", "year", "month", "account"})
            => /\ SumOf(gs, "count") = count(c.before, db)
               /\ SumOf(gs, "total_size")
                     = SumSize({[m |-> m] : m \in Matching(c.before, db)})

\* C19: for every query Q, every grouping field and every group g of
\* Q.group_by(field), iterating g.messages yields exactly g.count messages.
C19_DrillDownRoundTrip ==
    \A i \in DOMAIN made :
        made[i].op = "messages"
            => /\ made[i].exc = ""
               /\ Len(message_ids(heap[made[i].ret], db)) = made[i].args.count

\* C20: for every query Q and every grouping field, the ids of g.messages
\* taken over all groups g of Q.group_by(field) are exactly Q's result set.
C20_DrillDownCoverage ==
    \A i \in Calls({"group_by"}) :
        LET gs == GroupedQuery_iter(heap[made[i].ret], heap, db)
        IN UNION {DrillIds(gs[k]) : k \in DOMAIN gs}
              = Range(message_ids(made[i].before, db))

\* C21: Query.sort_by with a field outside {date, sender, subject, size},
\* group_by with a dimension outside the eight supported ones and
\* Grouping.sort_by with a field outside {key, count, total_size} raise the
\* invalid-field error (ValueError) at the call and return no object; the
\* receiver is unchanged and still usable; a valid field raises nothing.
C21_InvalidFieldRejection ==
    /\ \A i \in DOMAIN made :
          LET c == made[i]
              valid ==
                  CASE c.op = "sort_by" -> {"date", "sender", "subject", "size"}
                    [] c.op = "group_by" ->
                          {"sender", "sender_name", "domain", "year", "month",
                           "account", "label", "recipient"}
                    [] c.op = "group_sort_by" -> {"key", "count", "total_size"}
          IN c.op \in {"sort_by", "group_by", "group_sort_by"}
               => /\ (c.args[1] \notin valid) <=> (c.exc = "ValueError")
                  /\ c.exc \in {"", "ValueError"}
                  /\ c.exc = "ValueError" => c.ret = 0
                  /\ c.exc = "" => c.ret \in DOMAIN heap /\ c.ret # c.recv
                  /\ heap[c.recv] = c.before
    /\ Len(heap) = 1 + Cardinality({i \in DOMAIN made :
                                      made[i].op \notin ReadOps /\ made[i].exc = ""})

C21_Witness ==
    /\ Len(made) = 2
    /\ made[1].op = "sort_by" /\ made[1].exc = "ValueError"
    /\ made[2].op = "group_by" /\ made[2].exc = ""
    /\ made[2].recv = made[1].recv
    /\ GroupedQuery_iter(heap[made[2].ret], heap, db) # <<>>

\* C22: when the store fails during a read operation (iterate, count, first,
\* exists, ids) or a mutation, the caller gets a QueryError carrying the query
\* text and the cause, never the raw error of the store.
C22_StoreFailuresWrapped ==
    /\ \A i \in DOMAIN made :
          made[i].op \in ReadOps => made[i].exc \in {"", "QueryError"}
    /\ call.op \in Mutations
          => call.exc \in {"", "VaultReadOnlyError", "QueryError"}

\* C23: count() and exists() ignore sort and pagination and apply the
\* predicates and the soft-delete rule of iteration: sort_by, limit and
\* offset, alone or chained, leave count() as it is; count() is the number of
\* messages the query without pagination yields; exists() is true exactly
\* when count() > 0; ids() is the ids iteration yields, in the same order.
C23_CountIgnoresSortAndPagination ==
    /\ \A i \in Calls({"sort_by", "limit", "offset"}) :
          /\ count(heap[made[i].ret], db) = count(made[i].before, db)
          /\ exists(heap[made[i].ret], db) = exists(made[i].before, db)
    /\ \A o \in DOMAIN heap :
          IsQuery(heap[o])
              => LET Q == heap[o]
                 IN /\ \A f \in {"date", "size"}, n \in 0..2, k \in 0..2 :
                          count(offset(limit(sort_by(Q, f, FALSE)[1], n), k), db)
                              = count(Q, db)
                    /\ count(Q, db) = Len(IterIds(Unpaged(Q), db))
                    /\ exists(Q, db) <=> count(Q, db) > 0
                    /\ message_ids(Q, db) = IterIds(Q, db)
    /\ \A i \in DOMAIN made :
          LET c == made[i]
          IN /\ (c.op = "count" /\ c.exc = "")
                  => c.ret = Len(IterIds(Unpaged(c.before), db))
             /\ (c.op = "exists" /\ c.exc = "")
                  => c.ret = (IterIds(Unpaged(c.before), db) # <<>>)
             /\ (c.op = "message_ids" /\ c.exc = "")
                  => c.ret = IterIds(c.before, db)

C23_Witness ==
    /\ Len(made) = 2
    /\ made[1].op = "limit" /\ made[1].args = <<1>>
    /\ made[2].op = "count" /\ made[2].exc = ""
    /\ made[2].recv = made[1].ret
    /\ made[2].ret >= 2
    /\ Len(IterIds(heap[made[1].ret], db)) = 1

\* C24: no mutation creates or hard-deletes a message; delete() sets the
\* soft-delete marker of exactly the snapshotted ids that were alive, leaves
\* the timestamp of an already-deleted message as it was and touches no
\* label or association; add_label()/remove_label() change only associations
\* between the one label of that name and snapshotted ids, and no marker.
C24_MutationFrame ==
    /\ DOMAIN store.deleted_at = Msgs
    /\ (call.op = "delete" /\ call.exc = "")
          => /\ store.message_labels = before.message_labels
             /\ store.labels = before.labels
             /\ \A m \in Msgs :
                   IF m \in Range(call.ids) /\ Alive(before, m)
                   THEN ~Alive(store, m)
                   ELSE store.deleted_at[m] = before.deleted_at[m]
    /\ (call.op \in {"add_label", "remove_label"} /\ call.exc = "")
          => LET named == {l \in DOMAIN store.labels : store.labels[l].name = call.name}
                 added == store.message_labels \ before.message_labels
                 removed == before.message_labels \ store.message_labels
             IN /\ store.deleted_at = before.deleted_at
                /\ Cardinality(named) <= 1
                /\ \A p \in added \cup removed :
                      p[1] \in Range(call.ids) /\ p[2] \in named
                /\ call.op = "add_label" => removed = {}
                /\ call.op = "remove_label" => added = {}

C24_Witness ==
    /\ call.op = "delete"
    /\ call.exc = ""
    /\ \E m \in Range(call.ids) :
          ~Alive(before, m) /\ store.deleted_at[m] = SeedDeletedAt
    /\ \E m \in Range(call.ids) : Alive(before, m) /\ ~Alive(store, m)
    /\ before.message_labels # {}

\* C25: the drill-down of a year group with key YYYY matches exactly the
\* base matches sent in [YYYY-01-01, (YYYY+1)-01-01), that of a month group
\* with key YYYY-MM those sent in [YYYY-MM-01, first day of the next month),
\* January of the next year following December; and these are exactly the
\* messages the grouping placed under that key.
C25_DateBucketDrillDown ==
    \A i \in DOMAIN made :
        LET c == made[i]
            g == c.args
            Y == g.key[1]
            M == g.key[2]
            lo == IF g._field = "year" THEN Y * 10000 + 101 ELSE Y * 10000 + M * 100 + 1
            hi == IF g._field = "year" \/ M = 12 THEN (Y + 1) * 10000 + 101
                  ELSE Y * 10000 + (M + 1) * 100 + 1
            placed == {r.m : r \in {x \in GroupRows(c.before, g._field, db) :
                                        x.key = SqlText(g.key)}}
        IN (c.op = "messages" /\ g._field \in {"year", "month"} /\ g.key # <<>>)
            => /\ c.exc = ""
               /\ Matching(heap[c.ret], db)
                     = {m \in Matching(c.before, db) :
                           sent_at(m) # NULL /\ lo <= sent_at(m) /\ sent_at(m) < hi}
               /\ Matching(heap[c.ret], db) = placed

C25_Witness ==
    \E i \in DOMAIN made :
        /\ made[i].op = "messages"
        /\ made[i].args._field = "month"
        /\ made[i].args.key = <<2023, 12>>
        /\ made[i].exc = ""
        /\ Matching(heap[made[i].ret], db) = {3}
        /\ Cardinality(Matching(made[i].before, db)) = 3

\* C26: add_label(name) reuses the label of that name when there is one and
\* otherwise creates exactly one, of the default type, so no two labels
\* share a name; no call, undo_last() of the label_add that created a label
\* included, deletes or changes a label record.
C26_LabelRecords ==
    /\ \A i, j \in DOMAIN store.labels :
          store.labels[i].name = store.labels[j].name => i = j
    /\ Len(before.labels) <= Len(store.labels)
    /\ \A l \in DOMAIN before.labels : store.labels[l] = before.labels[l]
    /\ Len(store.labels) > Len(before.labels)
          => /\ call.op = "add_label"
             /\ Len(store.labels) = Len(before.labels) + 1
             /\ store.labels[Len(store.labels)] = [name |-> call.name, label_type |-> "user"]
             /\ \A l \in DOMAIN before.labels : before.labels[l].name # call.name
    /\ (call.op = "add_label" /\ call.exc = "" /\ call.ret > 0)
          => \E l \in DOMAIN store.labels : store.labels[l].name = call.name

C26_Witness ==
    /\ UndidRightAfter("label_add")
    /\ origin[1].call.name = "X"
    /\ Len(origin[1].before.labels) = 1
    /\ Len(store.labels) = 2
    /\ store.labels[2].name = "X"
    /\ \A m \in Msgs : <<m, 2>> \notin store.message_labels

\* C27: for every query, with a limit or offset or without, first() is None
\* exactly when iterating the query yields nothing and is otherwise the
\* first message iteration yields; with no sort and no offset that is a
\* message with the latest send timestamp among the matches.
C27_FirstIsHeadOfIteration ==
    /\ \A o \in DOMAIN heap :
          IsQuery(heap[o])
              => LET Q == heap[o]
                     it == MessageQuery_iter(Q, db)
                 IN /\ (first(Q, db) = None) <=> (it = <<>>)
                    /\ it # <<>> => first(Q, db) = <<it[1]>>
                    /\ (it # <<>> /\ Q.sort = <<>> /\ Q.offset = <<>>)
                          => \A m \in Matching(Q, db) :
                                sent_at(first(Q, db)[1].id) >= sent_at(m)
    /\ \A i \in DOMAIN made :
          (made[i].op = "first" /\ made[i].exc = "")
              => LET it == MessageQuery_iter(made[i].before, db)
                 IN made[i].ret = IF it = <<>> THEN None ELSE <<it[1]>>

\* C28: on a query with a limit n and/or an offset k, delete(), add_label()
\* and remove_label() change and log only ids that iterating the query
\* yields, at most n of them; a message that satisfies the predicates but
\* lies outside that page is neither changed nor logged, though count()
\* counts it.
C28_MutationsRespectPagination ==
    (call.op \in Mutations /\ call.exc = "")
        => LET Q == call.self[1]
               page == Range(IterIds(Q, before))
           IN /\ Changed \subseteq page
              /\ LoggedIds \subseteq page
              /\ Cardinality(page) <= count(Q, before)
              /\ (Q.limit # <<>> /\ Q.limit[1] >= 0)
                    => /\ Cardinality(Changed) <= Q.limit[1]
                       /\ Cardinality(LoggedIds) <= Q.limit[1]
                       /\ call.ret <= Q.limit[1]
              /\ \A m \in Matching(Q, before) \ page :
                    /\ store.deleted_at[m] = before.deleted_at[m]
                    /\ \A l \in DOMAIN store.labels :
                          (<<m, l>> \in store.message_labels)
                              <=> (<<m, l>> \in before.message_labels)

C28_Witness ==
    /\ call.op = "delete"
    /\ call.exc = ""
    /\ call.self[1].limit = <<1>>
    /\ count(call.self[1], before) = 3
    /\ Cardinality(Changed) = 1
    /\ LoggedIds = Changed
    /\ call.ret = 1

\* C29: undo_last() changes only messages of the undone entry's id set and
\* only the attribute of the entry's kind: undoing a delete clears the marker
\* only on entry ids that are deleted and touches no association; undoing
\* label_add or label_remove changes only associations between the entry's
\* recorded label id and the entry's ids and touches no marker.
C29_UndoFrame ==
    (call.op = "undo_last" /\ call.exc = "")
        => LET B == before.changelog
               open == {i \in DOMAIN B : ~B[i].undone}
               e == B[CHOOSE i \in open : \A j \in open : j <= i]
               ids == Range(e.message_ids)
               added == store.message_labels \ before.message_labels
               removed == before.message_labels \ store.message_labels
           IN /\ open # {}
              /\ store.labels = before.labels
              /\ Changed \subseteq ids
              /\ e.operation = "delete"
                    => /\ added = {} /\ removed = {}
                       /\ \A m \in Msgs :
                             store.deleted_at[m] # before.deleted_at[m]
                                 => m \in ids /\ ~Alive(before, m) /\ Alive(store, m)
              /\ e.operation = "label_add"
                    => /\ store.deleted_at = before.deleted_at
                       /\ added = {}
                       /\ \A p \in removed : p[1] \in ids /\ p[2] = e.details.label_id
              /\ e.operation = "label_remove"
                    => /\ store.deleted_at = before.deleted_at
                       /\ removed = {}
                       /\ \A p \in added : p[1] \in ids /\ p[2] = e.undo_data.label_id

C29_Witness ==
    /\ UndidRightAfter("delete")
    /\ Cardinality(Changed) = 2
    /\ \E m \in Msgs : ~Alive(store, m) /\ ~Alive(before, m)
    /\ store.message_labels # {}

\* C30: every query derived by filter, sort_by, limit, offset or Group.messages
\* carries the writable flag and the change log of the query it was derived
\* from, and a grouping holds the very query it was made from; so on no
\* query built from a non-writable one does delete(), add_label() or
\* remove_label() succeed.
C30_WritabilityNotEscalated ==
    /\ \A i \in Calls({"filter", "sort_by", "limit", "offset", "messages"}) :
          /\ heap[made[i].ret].writable = made[i].before.writable
          /\ heap[made[i].ret].changelog = made[i].before.changelog
          /\ heap[made[i].ret].conn = made[i].before.conn
    /\ \A i \in Calls({"group_by"}) : heap[made[i].ret]._base = made[i].recv
    /\ \A i \in Calls({"group_sort_by"}) : heap[made[i].ret]._base = made[i].before._base
    /\ \A i \in DOMAIN made :
          (made[i].op \in {"iter", "first"} /\ made[i].exc = "")
              => \A k \in DOMAIN made[i].ret :
                    /\ made[i].ret[k].writable = made[i].before.writable
                    /\ made[i].ret[k].changelog = made[i].before.changelog
    /\ \A o \in DOMAIN heap :
          IsQuery(heap[o])
              => /\ heap[o].writable = heap[1].writable
                 /\ heap[o].changelog = heap[1].changelog
                 /\ ~heap[1].writable => FailsClosed(heap[o])

C30_Witness ==
    /\ Len(made) = 2
    /\ ~heap[1].writable
    /\ made[1].op = "group_by" /\ made[1].exc = ""
    /\ made[2].op = "messages" /\ made[2].exc = ""
    /\ message_ids(heap[made[2].ret], db) # <<>>
    /\ FailsClosed(heap[made[2].ret])

====
